---- MODULE Spec2Model ----
(***************************************************************************)
(* Model of the green-space canister (src/src/backend/src/lib.rs): a       *)
(* stable u64 id counter, a stable BTreeMap u64 -> GreenSpace and the ten  *)
(* canister entry points.  Every entry point runs to completion as one     *)
(* message, so every entry point is one action.                            *)
(*                                                                         *)
(* Strings are sequences of one-character strings.  `call` and `ret` hold  *)
(* the last message and its reply; `issued` and `deleted` are history      *)
(* variables recording the ids handed out by add_green_space and the ids   *)
(* removed by a successful delete_green_space.                             *)
(*                                                                         *)
(* SpecConc looks inside add_green_space: several add messages are in      *)
(* flight at once and one add is three steps (read the counter, write the  *)
(* counter, insert the record); `adds` holds each message's position and   *)
(* locals.  Spec leaves `adds` alone.                                      *)
(***************************************************************************)
EXTENDS Integers, Sequences, FiniteSets, TLC

VARIABLES counter, storage, call, ret, issued, deleted, adds

vars == <<counter, storage, call, ret, issued, deleted, adds>>

\* Number of add_green_space calls explored (the u64 counter is capped here).
MaxAdds == 2

\* Number of add_green_space messages in flight at once in SpecConc.
MaxCallers == 2

Callers == 1..MaxCallers

\* Ids a caller may pass: every id that can have been issued, and one more.
Ids == 0..MaxAdds

\* Texts a caller may pass for each field, and the search queries.
Names == {<<>>, <<"a", "b", "c">>}
Locations == {<<>>, <<"b">>}
Descriptions == {<<>>, <<"b", "c">>}
Queries == {<<>>, <<"a">>, <<"b">>, <<"b", "c">>, <<"a", "c">>, <<"B">>}

\* struct GreenSpaceUpdatePayload
GreenSpaceUpdatePayload ==
    [name : Names, location : Locations, description : Descriptions]

\* struct GreenSpace
GreenSpace ==
    [id : Ids, name : Names, location : Locations, description : Descriptions]

\* Option and Result values
None == [tag |-> "None"]
Some(v) == [tag |-> "Some", val |-> v]
Ok(v) == [tag |-> "Ok", val |-> v]
Err(e) == [tag |-> "Err", err |-> e]

\* enum Error { NotFound { msg } }; msg is kept as the pieces format! joins.
NotFound(msg) == [kind |-> "NotFound", msg |-> msg]

\* thread_local initial values: the counter cell is created with 0 and the
\* map is created empty.
InitCounter == 0
InitStorage == <<>>

\* StableBTreeMap::insert(space.id, space.clone()): insert or overwrite.
\* Variant: the record is stored under the number of entries instead of its
\* id.
do_insert_green_space_len_key(store, space) ==
    LET key == Cardinality(DOMAIN store)
    IN  [k \in (DOMAIN store) \cup {key} |->
            IF k = key THEN space ELSE store[k]]

do_insert_green_space(store, space) ==
    [k \in (DOMAIN store) \cup {space.id} |->
        IF k = space.id THEN space ELSE store[k]]

\* StableBTreeMap::get
_get_green_space(store, id) ==
    IF id \in DOMAIN store THEN Some(store[id]) ELSE None

\* StableBTreeMap::remove: the map without the key.
btree_remove(store, id) ==
    [k \in (DOMAIN store) \ {id} |-> store[k]]

\* Variant: the value written back is the value read.
next_counter_stuck(current_value) == current_value

\* Variant: the counter advances by two.
next_counter_by_two(current_value) == current_value + 2

\* The value add_green_space writes into the counter cell.
next_counter(current_value) == current_value + 1

\* Variant: the reply of the counter write is taken to be the value written.
allocated_id_written(current_value, new_value) == new_value

\* Cell::set(value) hands back the value the cell held before the write;
\* add_green_space uses that reply as the id.
allocated_id(current_value, new_value) == current_value

\* Variant: the id is taken from the number of stored records instead of the
\* counter.
add_green_space_len_id(cnt, store, space) ==
    LET green_space == [id |-> Cardinality(DOMAIN store),
                        name |-> space.name,
                        location |-> space.location,
                        description |-> space.description]
    IN  [counter |-> next_counter(cnt),
         storage |-> do_insert_green_space(store, green_space),
         ret |-> Some(green_space)]

\* Variant: location and description of the payload end up in each other's
\* field.
add_green_space_swapped(cnt, store, space) ==
    LET green_space == [id |-> cnt,
                        name |-> space.name,
                        location |-> space.description,
                        description |-> space.location]
    IN  [counter |-> next_counter(cnt),
         storage |-> do_insert_green_space(store, green_space),
         ret |-> Some(green_space)]

add_green_space(cnt, store, space) ==
    LET current_value == cnt
        new_value == next_counter(current_value)
        id == allocated_id(current_value, new_value)
        green_space == [id |-> id,
                        name |-> space.name,
                        location |-> space.location,
                        description |-> space.description]
    IN  [counter |-> new_value,
         storage |-> do_insert_green_space(store, green_space),
         ret |-> Some(green_space)]

get_green_space(store, id) ==
    LET found == _get_green_space(store, id)
    IN  IF found.tag = "Some"
        THEN Ok(found.val)
        ELSE Err(NotFound(<<"A green space with id=", id, " not found">>))

\* Variant: an absent id is written as a new record instead of being refused.
update_green_space_upsert(store, id, payload) ==
    LET space == [id |-> id,
                  name |-> payload.name,
                  location |-> payload.location,
                  description |-> payload.description]
    IN  [storage |-> do_insert_green_space(store, space), ret |-> Ok(space)]

\* Variant: the description of the payload is not copied into the record.
update_green_space_no_description(store, id, payload) ==
    LET found == _get_green_space(store, id)
    IN  IF found.tag = "Some"
        THEN LET space == [found.val EXCEPT !.name = payload.name,
                                            !.location = payload.location]
             IN  [storage |-> do_insert_green_space(store, space),
                  ret |-> Ok(space)]
        ELSE [storage |-> store,
              ret |-> Err(NotFound(<<"Couldn't update a green space with id=",
                                     id, ". Space not found">>))]

update_green_space(store, id, payload) ==
    LET found == _get_green_space(store, id)
    IN  IF found.tag = "Some"
        THEN LET space == [found.val EXCEPT !.name = payload.name,
                                            !.location = payload.location,
                                            !.description = payload.description]
             IN  [storage |-> do_insert_green_space(store, space),
                  ret |-> Ok(space)]
        ELSE [storage |-> store,
              ret |-> Err(NotFound(<<"Couldn't update a green space with id=",
                                     id, ". Space not found">>))]

\* Variant: the record is looked up and returned but stays in the map.
delete_green_space_keeps(store, id) ==
    IF id \in DOMAIN store
    THEN [storage |-> store, ret |-> Ok(store[id])]
    ELSE [storage |-> store,
          ret |-> Err(NotFound(<<"Couldn't delete a green space with id=",
                                 id, ". Space not found">>))]

\* Variant: a successful delete empties the map.
delete_green_space_clears(store, id) ==
    IF id \in DOMAIN store
    THEN [storage |-> <<>>, ret |-> Ok(store[id])]
    ELSE [storage |-> store,
          ret |-> Err(NotFound(<<"Couldn't delete a green space with id=",
                                 id, ". Space not found">>))]

delete_green_space(store, id) ==
    IF id \in DOMAIN store
    THEN [storage |-> btree_remove(store, id), ret |-> Ok(store[id])]
    ELSE [storage |-> store,
          ret |-> Err(NotFound(<<"Couldn't delete a green space with id=",
                                 id, ". Space not found">>))]

\* Variant: an absent id gets a default record with the new location.
update_green_space_location_upsert(store, id, new_location) ==
    LET found == _get_green_space(store, id)
        base == IF found.tag = "Some"
                THEN found.val
                ELSE [id |-> id, name |-> <<>>, location |-> <<>>,
                      description |-> <<>>]
        space == [base EXCEPT !.location = new_location]
    IN  [storage |-> do_insert_green_space(store, space), ret |-> Ok(space)]

\* Variant: the new location is appended to the stored one.
update_green_space_location_appends(store, id, new_location) ==
    LET found == _get_green_space(store, id)
    IN  IF found.tag = "Some"
        THEN LET space == [found.val EXCEPT
                              !.location = found.val.location \o new_location]
             IN  [storage |-> do_insert_green_space(store, space),
                  ret |-> Ok(space)]
        ELSE [storage |-> store,
              ret |-> Err(NotFound(
                  <<"Couldn't update location for green space with id=",
                    id, ". Space not found">>))]

update_green_space_location(store, id, new_location) ==
    LET found == _get_green_space(store, id)
    IN  IF found.tag = "Some"
        THEN LET space == [found.val EXCEPT !.location = new_location]
             IN  [storage |-> do_insert_green_space(store, space),
                  ret |-> Ok(space)]
        ELSE [storage |-> store,
              ret |-> Err(NotFound(
                  <<"Couldn't update location for green space with id=",
                    id, ". Space not found">>))]

\* StableBTreeMap::len
get_green_space_count(store) == Ok(Cardinality(DOMAIN store))

\* StableBTreeMap::iter: the entries as (key, value) pairs in ascending key
\* order.
\* Variant: the entries come out in descending key order.
RECURSIVE btree_iter_from_desc(_, _)
btree_iter_from_desc(store, keys) ==
    IF keys = {}
    THEN <<>>
    ELSE LET k == CHOOSE m \in keys : \A n \in keys : m >= n
         IN  <<(<<k, store[k]>>)>> \o btree_iter_from_desc(store, keys \ {k})

RECURSIVE btree_iter_from(_, _)
btree_iter_from(store, keys) ==
    IF keys = {}
    THEN <<>>
    ELSE LET k == CHOOSE m \in keys : \A n \in keys : m <= n
         IN  <<(<<k, store[k]>>)>> \o btree_iter_from(store, keys \ {k})

btree_iter(store) == btree_iter_from(store, DOMAIN store)

\* str::contains(&str): the needle occurs at some offset of the haystack.
contains(haystack, needle) ==
    \E off \in 0..(Len(haystack) - Len(needle)) :
        \A j \in 1..Len(needle) : haystack[off + j] = needle[j]

\* Iterator::map(|(_, item)| item.clone()).collect()
RECURSIVE collect_values(_)
collect_values(entries) ==
    IF entries = <<>>
    THEN <<>>
    ELSE <<Head(entries)[2]>> \o collect_values(Tail(entries))

get_all_green_spaces(store) == Ok(collect_values(btree_iter(store)))

\* Variant: the mutable borrow is used to take the entries out of the map.
get_all_green_spaces_storage_drained(store) == <<>>

\* get_all_green_spaces holds the map through borrow_mut() but only calls
\* iter() on it: the map it leaves behind.
get_all_green_spaces_storage(store) == store

\* Iterator::filter_map(..).collect() of a search: the closure keeps the
\* spaces whose field contains the query.
RECURSIVE filter_map_name(_, _)
filter_map_name(entries, name) ==
    IF entries = <<>>
    THEN <<>>
    ELSE LET space == Head(entries)[2]
             rest == filter_map_name(Tail(entries), name)
         IN  IF contains(space.name, name) THEN <<space>> \o rest ELSE rest

search_green_spaces_by_name(store, name) ==
    Ok(filter_map_name(btree_iter(store), name))

RECURSIVE filter_map_description(_, _)
filter_map_description(entries, keyword) ==
    IF entries = <<>>
    THEN <<>>
    ELSE LET space == Head(entries)[2]
             rest == filter_map_description(Tail(entries), keyword)
         IN  IF contains(space.description, keyword)
             THEN <<space>> \o rest
             ELSE rest

search_green_spaces_by_description(store, keyword) ==
    Ok(filter_map_description(btree_iter(store), keyword))

\* Variant: the location search tests the name field.
filter_map_location_by_name(entries, location) ==
    filter_map_name(entries, location)

RECURSIVE filter_map_location(_, _)
filter_map_location(entries, location) ==
    IF entries = <<>>
    THEN <<>>
    ELSE LET space == Head(entries)[2]
             rest == filter_map_location(Tail(entries), location)
         IN  IF contains(space.location, location)
             THEN <<space>> \o rest
             ELSE rest

search_green_spaces_by_location(store, location) ==
    Ok(filter_map_location(btree_iter(store), location))

Init ==
    /\ counter = InitCounter
    /\ storage = InitStorage
    /\ call = [op |-> "init"]
    /\ ret = [tag |-> "Unit"]
    /\ issued = <<>>
    /\ deleted = {}
    /\ adds = [c \in Callers |-> [pc |-> "idle"]]

AddGreenSpace ==
    \E space \in GreenSpaceUpdatePayload :
        LET r == add_green_space(counter, storage, space)
        IN  /\ counter < MaxAdds
            /\ counter' = r.counter
            /\ storage' = r.storage
            /\ call' = [op |-> "add_green_space", space |-> space]
            /\ ret' = r.ret
            /\ issued' = IF r.ret.tag = "Some"
                         THEN Append(issued, r.ret.val.id)
                         ELSE issued
            /\ UNCHANGED <<deleted, adds>>

GetGreenSpace ==
    \E id \in Ids :
        /\ call' = [op |-> "get_green_space", id |-> id]
        /\ ret' = get_green_space(storage, id)
        /\ UNCHANGED <<counter, storage, issued, deleted, adds>>

UpdateGreenSpace ==
    \E id \in Ids, payload \in GreenSpaceUpdatePayload :
        LET r == update_green_space(storage, id, payload)
        IN  /\ storage' = r.storage
            /\ call' = [op |-> "update_green_space", id |-> id,
                        payload |-> payload]
            /\ ret' = r.ret
            /\ UNCHANGED <<counter, issued, deleted, adds>>

DeleteGreenSpace ==
    \E id \in Ids :
        LET r == delete_green_space(storage, id)
        IN  /\ storage' = r.storage
            /\ call' = [op |-> "delete_green_space", id |-> id]
            /\ ret' = r.ret
            /\ deleted' = IF r.ret.tag = "Ok"
                          THEN deleted \cup {id}
                          ELSE deleted
            /\ UNCHANGED <<counter, issued, adds>>

GetAllGreenSpaces ==
    /\ call' = [op |-> "get_all_green_spaces"]
    /\ ret' = get_all_green_spaces(storage)
    /\ storage' = get_all_green_spaces_storage(storage)
    /\ UNCHANGED <<counter, issued, deleted, adds>>

SearchGreenSpacesByName ==
    \E name \in Queries :
        /\ call' = [op |-> "search_green_spaces_by_name", query |-> name]
        /\ ret' = search_green_spaces_by_name(storage, name)
        /\ UNCHANGED <<counter, storage, issued, deleted, adds>>

SearchGreenSpacesByDescription ==
    \E keyword \in Queries :
        /\ call' = [op |-> "search_green_spaces_by_description",
                    query |-> keyword]
        /\ ret' = search_green_spaces_by_description(storage, keyword)
        /\ UNCHANGED <<counter, storage, issued, deleted, adds>>

UpdateGreenSpaceLocation ==
    \E id \in Ids, new_location \in Locations :
        LET r == update_green_space_location(storage, id, new_location)
        IN  /\ storage' = r.storage
            /\ call' = [op |-> "update_green_space_location", id |-> id,
                        new_location |-> new_location]
            /\ ret' = r.ret
            /\ UNCHANGED <<counter, issued, deleted, adds>>

GetGreenSpaceCount ==
    /\ call' = [op |-> "get_green_space_count"]
    /\ ret' = get_green_space_count(storage)
    /\ UNCHANGED <<counter, storage, issued, deleted, adds>>

SearchGreenSpacesByLocation ==
    \E location \in Queries :
        /\ call' = [op |-> "search_green_spaces_by_location",
                    query |-> location]
        /\ ret' = search_green_spaces_by_location(storage, location)
        /\ UNCHANGED <<counter, storage, issued, deleted, adds>>

Next ==
    \/ AddGreenSpace
    \/ GetGreenSpace
    \/ UpdateGreenSpace
    \/ DeleteGreenSpace
    \/ GetAllGreenSpaces
    \/ SearchGreenSpacesByName
    \/ SearchGreenSpacesByDescription
    \/ UpdateGreenSpaceLocation
    \/ GetGreenSpaceCount
    \/ SearchGreenSpacesByLocation

Spec == Init /\ [][Next]_vars

----------------------------------------------------------------------------
\* add_green_space step by step, with several add messages in flight.

\* Variant: a message may start while another one is between its steps.
message_may_start_always(a) == TRUE

\* add_green_space is a synchronous update method over thread_local state:
\* the canister runs it as one message, from entry to return, before it
\* starts the next message.
message_may_start(a) ==
    \A d \in Callers : a[d].pc \notin {"read", "written"}

\* A caller sends add_green_space(space); the message waits for its turn.
SubmitAdd ==
    \E c \in Callers, space \in GreenSpaceUpdatePayload :
        /\ adds[c].pc = "idle"
        /\ adds' = [adds EXCEPT ![c] = [pc |-> "queued", space |-> space]]
        /\ UNCHANGED <<counter, storage, call, ret, issued, deleted>>

\* let current_value = *counter.borrow().get();
AddReadCounter ==
    \E c \in Callers :
        /\ adds[c].pc = "queued"
        /\ message_may_start(adds)
        /\ adds' = [adds EXCEPT ![c] = [pc |-> "read",
                                        space |-> adds[c].space,
                                        current_value |-> counter]]
        /\ UNCHANGED <<counter, storage, call, ret, issued, deleted>>

\* counter.borrow_mut().set(current_value + 1): the cell takes the new value
\* and replies with the value it held, which becomes the id.
AddSetCounter ==
    \E c \in Callers :
        LET new_value == next_counter(adds[c].current_value)
        IN  /\ adds[c].pc = "read"
            /\ counter' = new_value
            /\ adds' = [adds EXCEPT ![c] =
                          [pc |-> "written",
                           space |-> adds[c].space,
                           id |-> allocated_id(counter, new_value)]]
            /\ UNCHANGED <<storage, call, ret, issued, deleted>>

\* do_insert_green_space(&green_space); Some(green_space)
AddInsert ==
    \E c \in Callers :
        LET green_space == [id |-> adds[c].id,
                            name |-> adds[c].space.name,
                            location |-> adds[c].space.location,
                            description |-> adds[c].space.description]
        IN  /\ adds[c].pc = "written"
            /\ storage' = do_insert_green_space(storage, green_space)
            /\ call' = [op |-> "add_green_space", space |-> adds[c].space]
            /\ ret' = Some(green_space)
            /\ issued' = Append(issued, green_space.id)
            /\ adds' = [adds EXCEPT ![c] = [pc |-> "done",
                                            space |-> adds[c].space,
                                            id |-> green_space.id]]
            /\ UNCHANGED <<counter, deleted>>

NextConc ==
    \/ SubmitAdd
    \/ AddReadCounter
    \/ AddSetCounter
    \/ AddInsert

SpecConc == Init /\ [][NextConc]_vars

----------------------------------------------------------------------------
\* Helpers of the properties.

IsAdd(c, r) == c.op = "add_green_space" /\ r.tag = "Some"

IssuedIds == {issued[i] : i \in 1..Len(issued)}

HasEmptyField(space) ==
    \/ space.name = <<>>
    \/ space.location = <<>>
    \/ space.description = <<>>

\* C1: the ids returned by add_green_space are pairwise distinct; an id that
\* was issued once is never issued again, also after its record was deleted.
C1_IdsNeverReissued ==
    \A i, j \in 1..Len(issued) : i # j => issued[i] # issued[j]

\* An add has returned after an earlier issued id was deleted.
C1_Witness ==
    /\ IsAdd(call, ret)
    /\ Len(issued) >= 2
    /\ \E i \in 1..(Len(issued) - 1) : issued[i] \in deleted

\* C2: each id returned by add_green_space is strictly greater than every id
\* returned by an earlier add, whatever deletes happened in between.
C2_IdsStrictlyIncreasing ==
    [][IsAdd(call', ret') =>
          \A i \in 1..Len(issued) : ret'.val.id > issued[i]]_vars

\* An add returns right after the most recently added record was deleted.
C2_Witness ==
    /\ IsAdd(call, ret)
    /\ Len(issued) >= 2
    /\ issued[Len(issued) - 1] \in deleted
    /\ ret.val.id = issued[Len(issued)]

\* C3: the counter is strictly greater than every id add_green_space has
\* returned, and no step makes the counter smaller.
C3_CounterAboveIssued ==
    /\ [](\A i \in 1..Len(issued) : counter > issued[i])
    /\ [][counter' >= counter]_vars

\* Several ids are out, one of them deleted, and a record was updated.
C3_Witness ==
    /\ Len(issued) >= 2
    /\ deleted # {}
    /\ call.op = "update_green_space"
    /\ ret.tag = "Ok"
    /\ counter = issued[Len(issued)] + 1

\* C4: add_green_space gives the new record the counter value after the
\* increment, so the first add on a fresh store returns id 1.
C4_IdIsCounterAfterIncrement ==
    (IsAdd(call, ret) /\ ~HasEmptyField(call.space)) =>
        /\ ret.val.id = counter
        /\ Len(issued) = 1 => ret.val.id = 1

\* C5: when name, location or description of the payload is empty,
\* add_green_space returns no record and the store keeps exactly the records
\* it had before the call.
C5_AddRejectsEmptyField ==
    [][(call'.op = "add_green_space" /\ HasEmptyField(call'.space)) =>
          (ret' = None /\ storage' = storage)]_vars

\* The entry points that write or remove the record stored under an id.
Targets(c, id) ==
    /\ c.op \in {"update_green_space", "update_green_space_location",
                 "delete_green_space"}
    /\ c.id = id

\* C6: after add_green_space(p) returns r, get_green_space(r.id) returns r
\* (r.id the new id, the three fields those of p), and the answer for an id
\* stays the same over every step that is no update, update_location or
\* delete of that id.
C6_GetAfterAdd ==
    [][/\ IsAdd(call', ret') =>
            /\ get_green_space(storage', ret'.val.id) = Ok(ret'.val)
            /\ ret'.val.name = call'.space.name
            /\ ret'.val.location = call'.space.location
            /\ ret'.val.description = call'.space.description
       /\ \A id \in Ids :
            (get_green_space(storage, id).tag = "Ok" /\ ~Targets(call', id)) =>
                get_green_space(storage', id) = get_green_space(storage, id)
      ]_vars

\* get_green_space returns the first record after a second one was added and
\* deleted again.
C6_Witness ==
    /\ call.op = "get_green_space"
    /\ ret.tag = "Ok"
    /\ Len(issued) = 2
    /\ ret.val.id = issued[1]
    /\ issued[2] \in deleted

\* C7: after delete_green_space(id) succeeds, get_green_space(id) is NotFound
\* and the count is one less than before the delete.
C7_DeleteThenGet ==
    [][(call'.op = "delete_green_space" /\ ret'.tag = "Ok") =>
          /\ get_green_space(storage', call'.id).tag = "Err"
          /\ get_green_space(storage', call'.id).err.kind = "NotFound"
          /\ get_green_space_count(storage').val
                = get_green_space_count(storage).val - 1]_vars

\* A delete succeeded and left another record behind.
C7_Witness ==
    /\ call.op = "delete_green_space"
    /\ ret.tag = "Ok"
    /\ get_green_space_count(storage).val = 1

IdsOf(records) == {records[i].id : i \in 1..Len(records)}

\* C8: an id whose delete succeeded is absent from get_green_space,
\* get_all_green_spaces and every search result in every later state.
C8_DeletionIsPermanent ==
    \A id \in deleted :
        /\ get_green_space(storage, id).tag = "Err"
        /\ id \notin IdsOf(get_all_green_spaces(storage).val)
        /\ \A q \in Queries :
            /\ id \notin IdsOf(search_green_spaces_by_name(storage, q).val)
            /\ id \notin IdsOf(search_green_spaces_by_location(storage, q).val)
            /\ id \notin IdsOf(search_green_spaces_by_description(storage, q).val)

\* An update was tried on a deleted id while another record is stored.
C8_Witness ==
    /\ call.op = "update_green_space"
    /\ call.id \in deleted
    /\ storage # <<>>

\* C9: get, update, update_location and delete of an id that is no key of the
\* store return NotFound and leave the store, the count and the counter as
\* they were.
C9_NotFoundChangesNothing ==
    [][(/\ call'.op \in {"get_green_space", "update_green_space",
                         "update_green_space_location", "delete_green_space"}
        /\ call'.id \notin DOMAIN storage) =>
          /\ ret'.tag = "Err"
          /\ ret'.err.kind = "NotFound"
          /\ storage' = storage
          /\ get_green_space_count(storage') = get_green_space_count(storage)
          /\ counter' = counter]_vars

\* update_location was refused for an absent id while a record is stored.
C9_Witness ==
    /\ call.op = "update_green_space_location"
    /\ ret.tag = "Err"
    /\ call.id \notin DOMAIN storage
    /\ storage # <<>>

\* needle is a contiguous piece of haystack.
IsSubstring(haystack, needle) ==
    \E pre, post \in 0..Len(haystack) :
        /\ pre + Len(needle) + post = Len(haystack)
        /\ SubSeq(haystack, pre + 1, pre + Len(needle)) = needle

Ascending(records) ==
    \A i, j \in 1..Len(records) : i < j => records[i].id < records[j].id

NameHas(q, r) == IsSubstring(r.name, q)
LocationHas(q, r) == IsSubstring(r.location, q)
DescriptionHas(q, r) == IsSubstring(r.description, q)

\* C10: each search returns exactly the records of get_all_green_spaces whose
\* field contains the query as a contiguous, case-sensitive substring, in
\* ascending id order; the empty query returns all of get_all_green_spaces.
C10_SearchIsFilterOfAll ==
    LET all == get_all_green_spaces(storage).val
        by_name(q) == search_green_spaces_by_name(storage, q).val
        by_location(q) == search_green_spaces_by_location(storage, q).val
        by_description(q) == search_green_spaces_by_description(storage, q).val
    IN  /\ \A q \in Queries :
            /\ by_name(q) = SelectSeq(all, LAMBDA r : NameHas(q, r))
            /\ by_location(q) = SelectSeq(all, LAMBDA r : LocationHas(q, r))
            /\ by_description(q)
                  = SelectSeq(all, LAMBDA r : DescriptionHas(q, r))
            /\ Ascending(by_name(q))
            /\ Ascending(by_location(q))
            /\ Ascending(by_description(q))
        /\ by_name(<<>>) = all
        /\ by_location(<<>>) = all
        /\ by_description(<<>>) = all

\* A location search kept the second of two records and dropped the first,
\* whose name contains the query.
C10_Witness ==
    /\ call.op = "search_green_spaces_by_location"
    /\ call.query = <<"b">>
    /\ ret.tag = "Ok"
    /\ Len(ret.val) = 1
    /\ get_green_space_count(storage).val = 2
    /\ ret.val[1].id = issued[2]
    /\ contains(storage[issued[1]].name, <<"b">>)

\* C11: update_green_space_location(id, L) on a stored id is idempotent: a
\* second call right after the first returns the same record and leaves the
\* same store, and get_green_space(id) shows location L with id, name and
\* description as they were before the first call.
C11_UpdateLocationIdempotent ==
    [][(/\ call'.op = "update_green_space_location"
        /\ call'.id \in DOMAIN storage) =>
          LET id == call'.id
              L == call'.new_location
              again == update_green_space_location(storage', id, L)
              before == get_green_space(storage, id).val
              after == get_green_space(storage', id)
              after_again == get_green_space(again.storage, id)
          IN  /\ ret'.tag = "Ok"
              /\ again.ret = ret'
              /\ again.storage = storage'
              /\ after = Ok([before EXCEPT !.location = L])
              /\ after_again = after]_vars

\* update_location put a non-empty location on a record whose other fields
\* are non-empty.
C11_Witness ==
    /\ call.op = "update_green_space_location"
    /\ ret.tag = "Ok"
    /\ call.new_location = <<"b">>
    /\ ret.val.name # <<>>
    /\ ret.val.description # <<>>

\* C12: update_green_space(id, payload) on a stored id replaces name,
\* location and description of that record by the payload's and keeps its
\* id; the other records, the count and the counter stay as they were, and
\* the returned record is the one get_green_space(id) returns afterwards.
C12_UpdateReplacesThreeFields ==
    [][(call'.op = "update_green_space" /\ call'.id \in DOMAIN storage) =>
          LET id == call'.id
              payload == call'.payload
          IN  /\ DOMAIN storage' = DOMAIN storage
              /\ storage'[id] = [id |-> storage[id].id,
                                 name |-> payload.name,
                                 location |-> payload.location,
                                 description |-> payload.description]
              /\ \A k \in DOMAIN storage \ {id} : storage'[k] = storage[k]
              /\ get_green_space_count(storage')
                    = get_green_space_count(storage)
              /\ counter' = counter
              /\ ret' = get_green_space(storage', id)]_vars

\* An update rewrote all three fields of one of two stored records.
C12_Witness ==
    /\ call.op = "update_green_space"
    /\ ret.tag = "Ok"
    /\ get_green_space_count(storage).val = 2
    /\ ~HasEmptyField(call.payload)

\* C13: delete_green_space(id) on a stored id returns the record stored
\* under id just before the call and leaves every other record and the
\* counter as they were.
C13_DeleteReturnsPrior ==
    [][(call'.op = "delete_green_space" /\ call'.id \in DOMAIN storage) =>
          /\ ret' = get_green_space(storage, call'.id)
          /\ DOMAIN storage' = DOMAIN storage \ {call'.id}
          /\ \A k \in DOMAIN storage \ {call'.id} : storage'[k] = storage[k]
          /\ counter' = counter]_vars

\* A delete returned the first record and the second one is still stored.
C13_Witness ==
    /\ call.op = "delete_green_space"
    /\ ret.tag = "Ok"
    /\ Len(issued) = 2
    /\ ret.val.id = issued[1]
    /\ issued[2] \in DOMAIN storage

\* C14: get_all_green_spaces returns every stored record exactly once, in
\* strictly ascending id order, and as many records as
\* get_green_space_count reports.
C14_GetAllIsWholeStoreAscending ==
    LET all == get_all_green_spaces(storage).val
    IN  /\ Len(all) = get_green_space_count(storage).val
        /\ \A k \in DOMAIN storage :
              Cardinality({i \in 1..Len(all) : all[i] = storage[k]}) = 1
        /\ \A i \in 1..Len(all) :
              /\ all[i].id \in DOMAIN storage
              /\ all[i] = storage[all[i].id]
        /\ Ascending(all)
        /\ call.op = "get_all_green_spaces" => ret.val = all

\* get_all_green_spaces answered with two records.
C14_Witness ==
    /\ call.op = "get_all_green_spaces"
    /\ ret.tag = "Ok"
    /\ Len(ret.val) = 2

ReadOps ==
    {"get_green_space", "get_all_green_spaces", "get_green_space_count",
     "search_green_spaces_by_name", "search_green_spaces_by_location",
     "search_green_spaces_by_description"}

\* C16: get_green_space, get_all_green_spaces, get_green_space_count and the
\* three searches leave the store and the counter as they were, whether they
\* succeed or return NotFound.
C16_ReadsChangeNothing ==
    [][call'.op \in ReadOps =>
          (storage' = storage /\ counter' = counter)]_vars

\* get_green_space returned NotFound while two records are stored.
C16_Witness ==
    /\ call.op = "get_green_space"
    /\ ret.tag = "Err"
    /\ get_green_space_count(storage).val = 2

\* C17: every entry of the store is stored under the id of its record.
C17_KeyIsRecordId ==
    \A k \in DOMAIN storage : storage[k].id = k

\* update_location rewrote the second record after the first was deleted.
C17_Witness ==
    /\ call.op = "update_green_space_location"
    /\ ret.tag = "Ok"
    /\ Len(issued) = 2
    /\ issued[1] \in deleted
    /\ ret.val.id = issued[2]

\* C18: an add that returns a record never overwrites an entry: its id is no
\* key of the store before the insert, the count grows by exactly 1 and every
\* record stored before is unchanged.
C18_AddNeverOverwrites ==
    [][IsAdd(call', ret') =>
          /\ ret'.val.id \notin DOMAIN storage
          /\ get_green_space_count(storage').val
                = get_green_space_count(storage).val + 1
          /\ \A k \in DOMAIN storage :
                k \in DOMAIN storage' /\ storage'[k] = storage[k]]_vars

\* An add returned while its record and an earlier one are both stored.
C18_Witness ==
    /\ IsAdd(call, ret)
    /\ get_green_space_count(storage).val = 2
    /\ storage[issued[1]].name # ret.val.name

\* C19: only add_green_space changes the counter, each add raises it by
\* exactly 1, and the ids issued are consecutive integers whatever updates
\* and deletes happen between two adds.
C19_IdsConsecutive ==
    /\ [][counter' # counter =>
            (call'.op = "add_green_space" /\ counter' = counter + 1)]_vars
    /\ [][IsAdd(call', ret') => counter' = counter + 1]_vars
    /\ [](\A i \in 2..Len(issued) : issued[i] = issued[i - 1] + 1)

\* The second add returned after the first record was deleted.
C19_Witness ==
    /\ IsAdd(call, ret)
    /\ Len(issued) = 2
    /\ deleted = {issued[1]}
    /\ ret.val.id = issued[1] + 1

HasId(a) == a.pc \in {"written", "done"}

\* C15: no two add_green_space invocations get the same id, also when several
\* are in flight: between an add's read of the counter and its write of the
\* incremented value the counter still holds the value read, and no step of
\* another invocation reads or writes the counter.
C15_AddReadWriteAtomic ==
    /\ [](\A c, d \in Callers :
            (c # d /\ HasId(adds[c]) /\ HasId(adds[d])) =>
                adds[c].id # adds[d].id)
    /\ [](\A c \in Callers :
            adds[c].pc = "read" => adds[c].current_value = counter)
    /\ [][\A c \in Callers :
            adds[c].pc = "read" =>
                /\ counter' # counter => adds'[c].pc = "written"
                /\ \A d \in Callers \ {c} :
                      adds'[d] # adds[d] => adds'[d].pc = "queued"]_vars

\* One add has returned and another, sent while the first was running or
\* waiting, has read the counter.
C15_Witness ==
    \E c, d \in Callers :
        /\ adds[c].pc = "done"
        /\ adds[d].pc = "read"
        /\ adds[d].current_value = adds[c].id + 1

====
